---- MODULE Spec2Model ----
(***************************************************************************)
(* The sleep-data toolkit of src/tools/sleep_tools.py (SleepAPITools):     *)
(* page fetching (get_sleep_data), paginated aggregation                   *)
(* (get_all_sleep_data, search_sleep_by_date), the analysis of the latest  *)
(* entry (get_sleep_analysis) and the trend report                         *)
(* (get_recent_sleep_trends).                                              *)
(*                                                                         *)
(* Encoding of Python values:                                              *)
(*   - an Optional value is a sequence of length <= 1: None is <<>>,       *)
(*     a value x is <<x>>;                                                 *)
(*   - a JSON object is a record; `"k" in d` is "k" \in DOMAIN d;          *)
(*   - a raw JSON field is a tagged record (absent key, null, number,      *)
(*     non-numeric string, infinite float);                                *)
(*   - an exception is a record [exc |-> type, msg |-> str(e)];            *)
(*   - a timestamp string "YYYY-MM-DDTHH:MM:SSZ" is a record               *)
(*     [date, time], so that split("T")[0] is its date field;              *)
(*   - durations are whole numbers: the raw durations of the model are     *)
(*     multiples of 60 seconds, for which round(x / 60, 2) is exact;       *)
(*   - an f-string "prefix: {str(e)}" is the pair <<prefix, str(e)>>;      *)
(*   - json.dumps followed by json.loads gives back the same value on      *)
(*     the values of the model (integers, strings, None, lists, objects);  *)
(*     the "metadata"/"timestamp" keys holding datetime.now() are left     *)
(*     out of the payloads.                                                *)
(***************************************************************************)
EXTENDS Integers, Sequences, FiniteSets, TLC

VARIABLES
    token,          \* self.config.token is set (truthy)
    op,             \* the public operation called, "idle" before the call
    pc,             \* "idle", "loop" (inside the while loop), "done"
    max_pages,      \* the max_pages argument of the running loop
    all_entries,    \* local all_entries of the paginating call
    next_token,     \* local next_token (Optional cursor)
    pages_fetched,  \* local pages_fetched
    result,         \* Optional: the value returned to the caller
    \* The HTTP traffic of the call, as seen on the wire:
    requests,       \* number of requests.get calls issued
    last_sent,      \* the next_token parameter of the latest request
    last,           \* Optional: what the latest response carried
    well_formed,    \* every response so far was a 2xx "success" body with
                    \* its pagination object and well-formed records
    carried,        \* the entries of the pages received so far, in order
    \* A helper function called on its own:
    args,           \* Optional: the arguments of the call
    \* Several calls of one toolkit in progress at once:
    calls           \* call id -> the locals and the traffic of that call

vars == <<token, op, pc, max_pages, all_entries, next_token, pages_fetched,
          result, requests, last_sent, last, well_formed, carried, args, calls>>

----------------------------------------------------------------------------
\* Bounds of the model.

\* Largest max_pages argument a caller passes to the paginating operations.
MaxPagesArg == 2
\* Largest number of records the server sends in the pages of one call.
MaxEntries == 2

----------------------------------------------------------------------------
\* Python values.

None == <<>>
Some(x) == <<x>>

\* Python truthiness of an Optional string ("" is falsy).
Truthy(o) == o # None /\ o[1] # ""

Exc(type, msg) == [exc |-> type, msg |-> msg]
IsExc(x) == "exc" \in DOMAIN x

\* requests.exceptions.RequestException and its subclasses.
RequestException == {"ConnectionError", "Timeout", "HTTPError"}

\* Raw JSON fields.
Absent == [tag |-> "absent", val |-> 0]
JNull == [tag |-> "null", val |-> 0]
Num(n) == [tag |-> "num", val |-> n]
BadStr == [tag |-> "str", val |-> 0]
Inf == [tag |-> "inf", val |-> 0]

\* entry.get(key) is not None
IsNotNone(f) == f.tag \notin {"absent", "null"}

\* The value of an expression that did not raise.
Ok(v) == [val |-> v]

\* float(entry.get(key, 0)): the value, or the exception float() raises.
\* (The raw durations and respiratory rates of the model are finite.)
Float(f) ==
    CASE f.tag = "null" -> Exc("TypeError", "float() argument must be a string or a real number")
      [] f.tag = "str" -> Exc("ValueError", "could not convert string to float")
      [] f.tag = "absent" -> Ok(0)
      [] OTHER -> Ok(f.val)

\* int(entry.get(key, 0)): the value, or the exception int() raises.
Int_(f) ==
    CASE f.tag = "null" -> Exc("TypeError", "int() argument must be a string or a real number")
      [] f.tag = "str" -> Exc("ValueError", "invalid literal for int()")
      [] f.tag = "inf" -> Exc("OverflowError", "cannot convert float infinity to integer")
      [] f.tag = "absent" -> Ok(0)
      [] OTHER -> Ok(f.val)

SecondsPerMinute == 60

\* The dict literal of lines 406-419 (get_sleep_data) and 318-325
\* (search_sleep_by_date), evaluated key by key in source order: the entry,
\* or the first exception raised.  with_metadata tells the two apart.
formatted_entry(entry, with_metadata) ==
    IF entry.start_time = None THEN Exc("KeyError", "'start_time'")
    ELSE IF entry.end_time = None THEN Exc("KeyError", "'end_time'")
    ELSE
    LET d == Float(entry.duration)
        q == IF IsNotNone(entry.quality) THEN Int_(entry.quality) ELSE Ok(None)
        r == IF IsNotNone(entry.respiratory_rate)
             THEN Float(entry.respiratory_rate) ELSE Ok(None)
        base == [date |-> entry.start_time[1].date,
                 start_time |-> entry.start_time[1],
                 end_time |-> entry.end_time[1],
                 duration_minutes |-> d.val \div SecondsPerMinute,
                 quality |-> IF IsNotNone(entry.quality) THEN Some(q.val) ELSE None,
                 respiratory_rate |->
                     IF IsNotNone(entry.respiratory_rate) THEN Some(r.val) ELSE None]
    IN  IF IsExc(d) THEN d
        ELSE IF IsExc(q) THEN q
        ELSE IF IsExc(r) THEN r
        ELSE IF with_metadata
             THEN Ok(base @@ [metadata |-> [provider_id |-> entry.provider_id]])
             ELSE Ok(base)

\* The exceptions the inner handler of the record loop catches
\* (except (ValueError, TypeError): log and continue).
SkippedExceptions == {"ValueError", "TypeError"}

\* The record loop of lines 404-427 and 316-329 over the records of one
\* page: Ok(the entries appended), or the exception that leaves the loop.
RECURSIVE format_entries(_, _)
format_entries(sleep_entries, with_metadata) ==
    IF sleep_entries = <<>> THEN Ok(<<>>)
    ELSE LET e == formatted_entry(Head(sleep_entries), with_metadata)
             rest == format_entries(Tail(sleep_entries), with_metadata)
         IN  IF IsExc(e)
             THEN IF e.exc \in SkippedExceptions THEN rest ELSE e
             ELSE IF IsExc(rest) THEN rest
             ELSE Ok(<<e.val>> \o rest.val)

----------------------------------------------------------------------------
\* The server: the responses requests.get can produce.

TS(d, t) == [date |-> d, time |-> t]

RawRecord(st, en, du, qu, rr) ==
    [start_time |-> st, end_time |-> en, duration |-> du, quality |-> qu,
     respiratory_rate |-> rr, provider_id |-> "p"]

\* The raw records the server sends: complete, without quality, without
\* duration, with a non-numeric duration, with an infinite quality
\* (1e999 in the JSON text), without start_time.
RawRecords ==
    { RawRecord(Some(TS(1, 1)), Some(TS(1, 2)), Num(25200), Num(90), Num(14)),
      RawRecord(Some(TS(2, 1)), Some(TS(2, 2)), Num(28800), JNull, Absent),
      RawRecord(Some(TS(3, 1)), Some(TS(3, 2)), Absent, Num(55), Absent),
      RawRecord(Some(TS(1, 1)), Some(TS(1, 2)), BadStr, Num(90), Absent),
      RawRecord(Some(TS(2, 1)), Some(TS(2, 2)), Num(25200), Inf, Absent),
      RawRecord(None, Some(TS(3, 2)), Num(25200), Num(55), Absent) }

Cursors == {"c1", "c2"}
Totals == {2, 40}

\* Lists of at most n raw records.
Pages(n) == UNION { [1..k -> RawRecords] : k \in 0..n }

\* The "pagination" object of a body, None when the key is missing.
Paginations(cursors) ==
    {None} \cup { Some([total |-> t, next |-> c]) :
                    t \in Totals, c \in {None} \cup { Some(x) : x \in cursors } }

\* requests.get(...) followed by raise_for_status() and json(): a transport
\* failure, a non-2xx status, or a 2xx response with a JSON body.  room is
\* the number of records the page may hold, cursors the cursors it may name.
Responses(room, cursors) ==
    { [http |-> "ConnectionError", msg |-> "connection refused", body |-> None],
      [http |-> "Timeout", msg |-> "read timed out", body |-> None],
      [http |-> "HTTPError", msg |-> "500 Server Error", body |-> None],
      [http |-> "ok", msg |-> "",
       body |-> Some([status |-> "error", data |-> <<>>, pagination |-> None])] }
    \cup
    { [http |-> "ok", msg |-> "",
       body |-> Some([status |-> "success", data |-> d, pagination |-> p])] :
        d \in Pages(room), p \in Paginations(cursors) }

----------------------------------------------------------------------------
\* get_sleep_data

\* format_error: json.dumps({"error": message})
format_error(message) == [error |-> message]

\* Lines 378-440: the body of the try block of get_sleep_data, given the
\* outcome of requests.get: Ok(the value returned) or the exception raised.
get_sleep_data_try(response) ==
    IF response.http # "ok" THEN Exc(response.http, response.msg)
    ELSE
    LET data == response.body[1] IN
    IF data.status = "success" /\ data.data # <<>>
    THEN LET formatted_entries == format_entries(data.data, TRUE) IN
         IF IsExc(formatted_entries) THEN formatted_entries
         ELSE IF data.pagination = None THEN Exc("KeyError", "'pagination'")
         ELSE Ok([recent_sleep_data |-> formatted_entries.val,
                  days_analyzed |-> Len(formatted_entries.val),
                  total_available |-> data.pagination[1].total,
                  next_token |-> data.pagination[1].next])
    ELSE Ok(format_error(<<"No sleep data available or invalid response">>))

\* get_sleep_data with `except requests.exceptions.RequestException` alone:
\* any other exception leaves the function.
get_sleep_data_except_narrow(r) ==
    IF ~IsExc(r) THEN r.val
    ELSE IF r.exc \in RequestException
    THEN [error |-> <<"API request failed", r.msg>>]
    ELSE r

\* Lines 442-447: the except clauses of get_sleep_data.
get_sleep_data_except(r) ==
    IF ~IsExc(r) THEN r.val
    ELSE IF r.exc \in RequestException
    THEN format_error(<<"API request failed", r.msg>>)
    ELSE format_error(<<"Unexpected error", r.msg>>)

\* Lines 374-375: get_sleep_data issues a request only with a token.
get_sleep_data_requests(tok) == tok

\* get_sleep_data(days, next_token), given the response to its request.
get_sleep_data(tok, response) ==
    IF ~get_sleep_data_requests(tok) THEN format_error(<<"No API token configured">>)
    ELSE get_sleep_data_except(get_sleep_data_try(response))

\* What a response carried: whether the request failed (transport failure
\* or non-2xx status) and with which message, the status and the raw
\* records of its body, its next cursor.
Carried(response) ==
    LET body == response.body IN
    [failed |-> response.http # "ok",
     msg |-> response.msg,
     status |-> IF body = None THEN "" ELSE body[1].status,
     data |-> IF body = None THEN <<>> ELSE body[1].data,
     has_pagination |-> IF body = None THEN FALSE ELSE body[1].pagination # None,
     next |-> IF body = None THEN None
              ELSE IF body[1].pagination = None THEN None
              ELSE body[1].pagination[1].next]

\* A record with both timestamps and finite numbers (its numeric fields
\* may still be absent, null or non-numeric strings).
WellFormedRecord(r) ==
    r.start_time # None /\ r.end_time # None /\ r.quality.tag # "inf"

\* A 2xx response with a "success" body, its pagination object and
\* well-formed records (possibly none).
WellFormed(response) ==
    /\ response.http = "ok"
    /\ response.body[1].status = "success"
    /\ response.body[1].pagination # None
    /\ \A i \in DOMAIN response.body[1].data :
          WellFormedRecord(response.body[1].data[i])

\* The entries of the page of a response: its records as the record loop
\* formats them, none when the loop is left by an exception.
PageEntries(response, with_metadata) ==
    IF response.body = None THEN <<>>
    ELSE LET f == format_entries(response.body[1].data, with_metadata)
         IN  IF IsExc(f) THEN <<>> ELSE f.val

----------------------------------------------------------------------------
\* Arithmetic of the statistics.  A value the code rounds to 2 decimals is
\* kept in hundredths.

RECURSIVE Sum(_)
Sum(seq) == IF seq = <<>> THEN 0 ELSE Head(seq) + Sum(Tail(seq))

Min(seq) == CHOOSE x \in { seq[i] : i \in DOMAIN seq } :
                \A i \in DOMAIN seq : x <= seq[i]
Max(seq) == CHOOSE x \in { seq[i] : i \in DOMAIN seq } :
                \A i \in DOMAIN seq : x >= seq[i]

\* n / d rounded to a multiple of 1 / scale, as a number of such units,
\* for n >= 0 and d > 0 (ties to even).
RoundTo(scale, n, d) ==
    LET q == (scale * n) \div d
        r == (scale * n) % d
    IN  IF 2 * r < d THEN q
        ELSE IF 2 * r > d THEN q + 1
        ELSE IF q % 2 = 0 THEN q ELSE q + 1

\* round(n / d, 2), in hundredths.
Round2(n, d) == RoundTo(100, n, d)

\* f"{n / d:.1f}", in tenths.
Format1f(n, d) == RoundTo(10, n, d)

MinutesPerHour == 60

\* [f(e) for e in entries if keep(e)]
Comprehension(entries, keep(_), f(_)) ==
    LET kept == SelectSeq(entries, keep)
    IN  [i \in 1..Len(kept) |-> f(kept[i])]

----------------------------------------------------------------------------
\* _calculate_consistency_score (lines 609-623), in hundredths.

max_acceptable_std_dev == 120

\* a <= 500 * sqrt(w) for integers a, w >= 0, without leaving 32 bits:
\* with a = 500 q + r, a^2 <= 250000 w iff 1000 q r + r^2 <= 250000 (w - q^2).
LeqScaledSqrt(a, w) ==
    LET q == a \div 500
        r == a % 500
        room == w - q * q
    IN  IF room < 0 THEN FALSE
        ELSE IF room >= 2000 THEN TRUE
        ELSE 1000 * q * r + r * r <= 250000 * room

\* The score taken from half the range of the durations instead of their
\* standard deviation.
_calculate_consistency_score_by_range(durations) ==
    IF durations = <<>> \/ Len(durations) < 2 THEN 0
    ELSE LET half_range_2 == Max(durations) - Min(durations)
             cap == 2 * max_acceptable_std_dev
         IN  IF half_range_2 >= cap THEN 0
             ELSE 10000 - RoundTo(10000, half_range_2, cap)

_calculate_consistency_score(durations) ==
    IF durations = <<>> \/ Len(durations) < 2 THEN 0
    ELSE
    LET n == Len(durations)
        lo == Min(durations)
        \* the variance does not change when every duration is shifted
        dev == [i \in 1..n |-> durations[i] - lo]
        \* n^2 * variance = n * sum(x^2) - sum(x)^2
        w == n * Sum([i \in 1..n |-> dev[i] * dev[i]]) - Sum(dev) * Sum(dev)
        cap == max_acceptable_std_dev * max_acceptable_std_dev * n * n
    IN  IF w >= cap THEN 0        \* min(std_dev / 120, 1) = 1
        ELSE
        \* 10000 * std_dev / 120 = 250 * sqrt(w) / (3 n), rounded
        LET s == CHOOSE x \in 0..(max_acceptable_std_dev * n) :
                    x * x <= w /\ w < (x + 1) * (x + 1)
            low == (250 * s) \div (3 * n)
            high == (250 * (s + 1)) \div (3 * n) + 1
            m == CHOOSE x \in low..high :
                    /\ LeqScaledSqrt((2 * x - 1) * 3 * n, w) \/ x = 0
                    /\ ~LeqScaledSqrt((2 * x + 1) * 3 * n, w)
        IN  10000 - m

----------------------------------------------------------------------------
\* get_all_sleep_data

\* Lines 477-486: the value returned after the loop.
get_all_sleep_data_return(entries, tok, fetched) ==
    [sleep_data |-> entries,
     total_entries |-> Len(entries),
     pages_fetched |-> fetched + 1,
     has_more |-> Truthy(tok)]

\* The loop without `pages_fetched += 1`.
get_all_sleep_data_iteration_uncounted(entries, tok, fetched, data) ==
    IF IsExc(data)
    THEN [exit |-> "return",
          value |-> [error |-> <<"Failed to fetch all sleep data", data.msg>>],
          all_entries |-> entries, next_token |-> tok, pages_fetched |-> fetched]
    ELSE IF "error" \in DOMAIN data
    THEN [exit |-> "return", value |-> [error |-> data.error],
          all_entries |-> entries, next_token |-> tok, pages_fetched |-> fetched]
    ELSE IF ~Truthy(data.next_token)
    THEN [exit |-> "break", all_entries |-> entries \o data.recent_sleep_data,
          next_token |-> data.next_token, pages_fetched |-> fetched]
    ELSE [exit |-> "next", all_entries |-> entries \o data.recent_sleep_data,
          next_token |-> data.next_token, pages_fetched |-> fetched]

\* The loop that fetches the page again when get_sleep_data returns an error.
get_all_sleep_data_iteration_retry(entries, tok, fetched, data) ==
    IF IsExc(data) \/ "error" \in DOMAIN data
    THEN [exit |-> "next", all_entries |-> entries, next_token |-> tok,
          pages_fetched |-> fetched + 1]
    ELSE IF ~Truthy(data.next_token)
    THEN [exit |-> "break", all_entries |-> entries \o data.recent_sleep_data,
          next_token |-> data.next_token, pages_fetched |-> fetched]
    ELSE [exit |-> "next", all_entries |-> entries \o data.recent_sleep_data,
          next_token |-> data.next_token, pages_fetched |-> fetched + 1]

\* The loop that keeps its old next_token when it goes on to the next page.
get_all_sleep_data_iteration_stale(entries, tok, fetched, data) ==
    IF IsExc(data)
    THEN [exit |-> "return",
          value |-> [error |-> <<"Failed to fetch all sleep data", data.msg>>],
          all_entries |-> entries, next_token |-> tok, pages_fetched |-> fetched]
    ELSE IF "error" \in DOMAIN data
    THEN [exit |-> "return", value |-> [error |-> data.error],
          all_entries |-> entries, next_token |-> tok, pages_fetched |-> fetched]
    ELSE IF ~Truthy(data.next_token)
    THEN [exit |-> "break", all_entries |-> entries \o data.recent_sleep_data,
          next_token |-> data.next_token, pages_fetched |-> fetched]
    ELSE [exit |-> "next", all_entries |-> entries \o data.recent_sleep_data,
          next_token |-> tok, pages_fetched |-> fetched + 1]

\* Lines 462-475: one iteration of the while loop, given the value
\* get_sleep_data returned.  exit is "return" (the error is returned),
\* "break" or "next" (the loop condition is evaluated again).
get_all_sleep_data_iteration(entries, tok, fetched, data) ==
    IF IsExc(data)    \* lines 488-489: except Exception
    THEN [exit |-> "return",
          value |-> format_error(<<"Failed to fetch all sleep data", data.msg>>),
          all_entries |-> entries, next_token |-> tok, pages_fetched |-> fetched]
    ELSE IF "error" \in DOMAIN data
    THEN [exit |-> "return", value |-> format_error(data.error),
          all_entries |-> entries, next_token |-> tok, pages_fetched |-> fetched]
    ELSE IF ~Truthy(data.next_token)
    THEN [exit |-> "break", all_entries |-> entries \o data.recent_sleep_data,
          next_token |-> data.next_token, pages_fetched |-> fetched]
    ELSE [exit |-> "next", all_entries |-> entries \o data.recent_sleep_data,
          next_token |-> data.next_token, pages_fetched |-> fetched + 1]

----------------------------------------------------------------------------
\* get_sleep_analysis

\* The category with `if not quality_score` as its first test.
_get_quality_category_falsy(quality_score) ==
    IF quality_score = None \/ quality_score[1] = 0 THEN "Unknown"
    ELSE IF quality_score[1] >= 80 THEN "Excellent"
    ELSE IF quality_score[1] >= 60 THEN "Good"
    ELSE IF quality_score[1] >= 40 THEN "Fair"
    ELSE "Poor"

\* _get_quality_category (lines 524-535)
_get_quality_category(quality_score) ==
    IF quality_score = None THEN "Unknown"
    ELSE IF quality_score[1] >= 80 THEN "Excellent"
    ELSE IF quality_score[1] >= 60 THEN "Good"
    ELSE IF quality_score[1] >= 40 THEN "Fair"
    ELSE "Poor"

\* Lines 495-518, given the value get_sleep_data(days=1) returned.
\* Nothing in the block raises on the values get_sleep_data returns.
get_sleep_analysis(data) ==
    IF IsExc(data)    \* lines 520-522: except Exception
    THEN format_error(<<"Analysis failed", data.msg>>)
    ELSE IF "error" \in DOMAIN data THEN format_error(data.error)
    ELSE IF data.recent_sleep_data = <<>>
    THEN format_error(<<"No recent sleep data available">>)
    ELSE LET latest_entry == data.recent_sleep_data[1] IN
         [latest_sleep |-> latest_entry,
          analysis |->
            [sleep_duration_hours |-> Round2(latest_entry.duration_minutes, MinutesPerHour),
             quality_score |-> latest_entry.quality,
             quality_category |-> _get_quality_category(latest_entry.quality),
             respiratory_rate |-> latest_entry.respiratory_rate]]

----------------------------------------------------------------------------
\* get_recent_sleep_trends

\* Line 599: "improving" if quality_scores[-1] > quality_scores[0]
\*           else "declining" if quality_scores else "unknown"
\* The condition quality_scores[-1] > quality_scores[0] is evaluated first.
quality_trend(quality_scores) ==
    IF quality_scores = <<>> THEN Exc("IndexError", "list index out of range")
    ELSE IF quality_scores[Len(quality_scores)] > quality_scores[1]
    THEN Ok("improving")
    ELSE IF quality_scores # <<>> THEN Ok("declining") ELSE Ok("unknown")

\* Lines 566-592: the trends dict before the trend indicators.
summary_stats(sleep_entries, quality_scores, durations, respiratory_rates) ==
    [sleep_duration |->
        [average_hours |-> IF durations # <<>>
            THEN Some(Round2(Sum(durations), Len(durations) * MinutesPerHour)) ELSE None,
         min_hours |-> IF durations # <<>>
            THEN Some(Round2(Min(durations), MinutesPerHour)) ELSE None,
         max_hours |-> IF durations # <<>>
            THEN Some(Round2(Max(durations), MinutesPerHour)) ELSE None],
     sleep_quality |->
        [average_score |-> IF quality_scores # <<>>
            THEN Some(Round2(Sum(quality_scores), Len(quality_scores))) ELSE None,
         best_quality |-> IF quality_scores # <<>> THEN Some(Max(quality_scores)) ELSE None,
         lowest_quality |-> IF quality_scores # <<>> THEN Some(Min(quality_scores)) ELSE None],
     respiratory_rate |->
        [average |-> IF respiratory_rates # <<>>
            THEN Some(Round2(Sum(respiratory_rates), Len(respiratory_rates))) ELSE None,
         min |-> IF respiratory_rates # <<>> THEN Some(Round2(Min(respiratory_rates), 1)) ELSE None,
         max |-> IF respiratory_rates # <<>> THEN Some(Round2(Max(respiratory_rates), 1)) ELSE None]]

\* Line 595: the guard of the trend indicators.
has_trend_indicators(durations) == Len(durations) > 1

\* Line 563: if entry.get("duration_minutes") (truthiness: 0 is left out)
duration_is_kept(entry) == entry.duration_minutes # 0

\* Line 558: if not sleep_entries
no_sleep_entries(sleep_entries) == sleep_entries = <<>>

\* Lines 551-603: the body of the try block after the fetch, given the value
\* the fetch returned: Ok(the value returned) or the exception raised.
get_recent_sleep_trends_try(data, use_pagination) ==
    IF IsExc(data) THEN data
    ELSE IF "error" \in DOMAIN data THEN Ok(format_error(data.error))
    ELSE
    LET sleep_entries ==
            IF use_pagination
            THEN IF "sleep_data" \in DOMAIN data THEN data.sleep_data ELSE <<>>
            ELSE IF "recent_sleep_data" \in DOMAIN data THEN data.recent_sleep_data ELSE <<>>
    IN
    IF no_sleep_entries(sleep_entries)
    THEN Ok(format_error(<<"No sleep data available for trend analysis">>))
    ELSE
    LET quality_scores ==
            Comprehension(sleep_entries, LAMBDA e : e.quality # None, LAMBDA e : e.quality[1])
        durations ==
            Comprehension(sleep_entries, duration_is_kept, LAMBDA e : e.duration_minutes)
        respiratory_rates ==
            Comprehension(sleep_entries, LAMBDA e : e.respiratory_rate # None,
                          LAMBDA e : e.respiratory_rate[1])
        trends ==
            [period_analyzed |-> <<"Last", Len(sleep_entries), "entries">>,
             entries_analyzed |-> Len(sleep_entries),
             summary_stats |->
                summary_stats(sleep_entries, quality_scores, durations, respiratory_rates),
             daily_data |-> sleep_entries,
             metadata |-> [data_points |-> Len(sleep_entries),
                           using_pagination |-> use_pagination]]
    IN
    IF has_trend_indicators(durations)
    THEN LET qt == quality_trend(quality_scores) IN
         IF IsExc(qt) THEN qt
         ELSE Ok(trends @@
                 [trends |->
                    [duration_trend |->
                        IF durations[Len(durations)] > durations[1]
                        THEN "improving" ELSE "declining",
                     quality_trend |-> qt.val,
                     consistency_score |-> _calculate_consistency_score(durations)]])
    ELSE Ok(trends)

\* Lines 605-607: except Exception.
get_recent_sleep_trends_except(r) ==
    IF IsExc(r) THEN format_error(<<"Trend analysis failed", r.msg>>) ELSE r.val

get_recent_sleep_trends(data, use_pagination) ==
    get_recent_sleep_trends_except(get_recent_sleep_trends_try(data, use_pagination))

----------------------------------------------------------------------------
\* _format_sleep_data_for_display

\* sorted(entries, key=lambda x: x["start_time"], reverse=True): stable,
\* timestamps of one offset compare as their (date, time) pairs.
Later(a, b) == a.date > b.date \/ (a.date = b.date /\ a.time > b.time)

RECURSIVE Insert(_, _)
Insert(sorted, e) ==
    IF sorted = <<>> THEN <<e>>
    ELSE IF Later(e.start_time, Head(sorted).start_time)
    THEN <<e>> \o sorted
    ELSE <<Head(sorted)>> \o Insert(Tail(sorted), e)

RECURSIVE sorted_entries(_)
sorted_entries(entries) ==
    IF entries = <<>> THEN <<>>
    ELSE Insert(sorted_entries(SubSeq(entries, 1, Len(entries) - 1)),
                entries[Len(entries)])

\* A table cell: the placeholder '-', a text, or a number.
Placeholder == [kind |-> "-", text |-> "-", value |-> 0]
Text(t) == [kind |-> "text", text |-> t, value |-> 0]
Number(v) == [kind |-> "number", text |-> "", value |-> v]

\* Lines 230-239: one table row (the timestamps of the model parse).
table_row(entry) ==
    [date |-> entry.date,
     sleep_time |-> entry.start_time.time,
     wake_time |-> entry.end_time.time,
     \* f"{entry['duration_minutes']/60:.1f}h" if entry.get('duration_minutes') else '-'
     duration |-> IF entry.duration_minutes # 0
                  THEN Number(Format1f(entry.duration_minutes, MinutesPerHour))
                  ELSE Placeholder,
     \* str(entry.get('quality', '-')): the key is there, its value may be None
     quality |-> IF entry.quality = None THEN Text("None") ELSE Number(entry.quality[1]),
     \* f"{entry['respiratory_rate']:.1f}" if entry.get('respiratory_rate') else '-'
     resp_rate |-> IF entry.respiratory_rate # None /\ entry.respiratory_rate[1] # 0
                   THEN Number(Format1f(entry.respiratory_rate[1], 1))
                   ELSE Placeholder]

\* Lines 244-258: the summary block.
display_summary(entries) ==
    LET durations == Comprehension(entries, LAMBDA e : e.duration_minutes # 0,
                                   LAMBDA e : e.duration_minutes)
        qualities == Comprehension(entries, LAMBDA e : e.quality # None,
                                   LAMBDA e : e.quality[1])
    IN  [avg_sleep |-> IF durations # <<>>
            THEN Some(Format1f(Sum(durations), Len(durations) * MinutesPerHour)) ELSE None,
         range |-> IF durations # <<>>
            THEN Some(<<Format1f(Min(durations), MinutesPerHour),
                        Format1f(Max(durations), MinutesPerHour)>>) ELSE None,
         avg_quality |-> IF qualities # <<>>
            THEN Some(Format1f(Sum(qualities), Len(qualities))) ELSE None,
         showing |-> Len(entries)]

\* _format_sleep_data_for_display (lines 215-260)
_format_sleep_data_for_display(entries) ==
    IF entries = <<>> THEN [text |-> "No sleep data available"]
    ELSE LET sorted == sorted_entries(entries) IN
         [table |-> [i \in 1..Len(sorted) |-> table_row(sorted[i])],
          summary |-> display_summary(entries)]

----------------------------------------------------------------------------
\* search_sleep_by_date

\* Line 343: all_entries[:30]
DisplayLimit == 30
Prefix(seq, n) == SubSeq(seq, 1, IF Len(seq) < n THEN Len(seq) ELSE n)

\* Lines 303-338: one iteration of the while loop, given the outcome of
\* requests.get: the exception raised, or the locals after the iteration
\* with exit "break" or "next".
search_sleep_by_date_iteration(entries, tok, fetched, response) ==
    IF response.http # "ok" THEN Exc(response.http, response.msg)
    ELSE
    LET data == response.body[1] IN
    IF data.status = "success" /\ data.data # <<>>
    THEN LET formatted == format_entries(data.data, FALSE) IN
         IF IsExc(formatted) THEN formatted
         ELSE IF data.pagination = None THEN Exc("KeyError", "'pagination'")
         ELSE IF ~Truthy(data.pagination[1].next)
         THEN [exit |-> "break", all_entries |-> entries \o formatted.val,
               next_token |-> data.pagination[1].next, pages_fetched |-> fetched]
         ELSE [exit |-> "next", all_entries |-> entries \o formatted.val,
               next_token |-> data.pagination[1].next, pages_fetched |-> fetched + 1]
    ELSE [exit |-> "break", all_entries |-> entries, next_token |-> tok,
          pages_fetched |-> fetched]

\* Lines 340-360: after the loop.  data is the body of the latest response
\* (read only when there are entries, hence after at least one response).
search_sleep_by_date_return(entries, tok, fetched, data) ==
    IF entries # <<>>
    THEN IF data.pagination = None THEN Exc("KeyError", "'pagination'")
         ELSE Ok([display |-> _format_sleep_data_for_display(Prefix(entries, DisplayLimit)),
                  summary |-> [total_entries_found |-> Len(entries),
                               total_available |-> data.pagination[1].total,
                               pages_fetched |-> fetched + 1,
                               has_more |-> Truthy(tok)]])
    ELSE Ok(format_error(<<"No sleep data available for the specified date range">>))

\* Lines 362-364: except Exception.
search_sleep_by_date_except(r) ==
    IF IsExc(r) THEN format_error(<<"Date search failed", r.msg>>) ELSE r.val

----------------------------------------------------------------------------
\* The state machine: one toolkit, one public call.

\* get_recent_sleep_trends calls get_all_sleep_data(max_pages=10) (line 547).
TrendsMaxPages == 10

\* The server names a next cursor in at most its first MaxPagesArg
\* responses to a call, so that a call with max_pages <= MaxPagesArg can be
\* answered with a cursor every time.
ServerCursors == IF requests < MaxPagesArg THEN Cursors ELSE {}

\* The pages of one call hold at most MaxEntries records in all.
ServerResponses == Responses(MaxEntries - Len(all_entries), ServerCursors)

NextTokenArgs == {None} \cup { Some(c) : c \in Cursors }

Init ==
    /\ token \in BOOLEAN
    /\ op = "idle"
    /\ pc = "idle"
    /\ max_pages = 0
    /\ all_entries = <<>>
    /\ next_token = None
    /\ pages_fetched = 0
    /\ result = None
    /\ requests = 0
    /\ last_sent = None
    /\ last = None
    /\ well_formed = TRUE
    /\ carried = <<>>
    /\ args = None
    /\ calls = <<>>

\* requests.get is called with next_token = tok and answered by response.
Request(tok, response, with_metadata) ==
    /\ requests' = requests + 1
    /\ last_sent' = tok
    /\ last' = Some(Carried(response))
    /\ well_formed' = (well_formed /\ WellFormed(response))
    /\ carried' = carried \o PageEntries(response, with_metadata)

NoRequest == UNCHANGED <<requests, last_sent, last, well_formed, carried>>

\* The traffic of one call of get_sleep_data.
GetSleepDataTraffic(tok, response) ==
    IF get_sleep_data_requests(token) THEN Request(tok, response, TRUE) ELSE NoRequest

\* A public operation that issues one get_sleep_data call and returns.
SinglePage(name, tok, response, value) ==
    /\ op' = name
    /\ pc' = "done"
    /\ GetSleepDataTraffic(tok, response)
    /\ result' = Some(value)
    /\ UNCHANGED <<token, max_pages, all_entries, next_token, pages_fetched>>
    /\ UNCHANGED <<args, calls>>

\* get_sleep_data(days, next_token)
GetSleepData ==
    /\ pc = "idle"
    /\ \E tok \in NextTokenArgs, response \in ServerResponses :
        SinglePage("get_sleep_data", tok, response, get_sleep_data(token, response))

\* get_sleep_analysis()
GetSleepAnalysis ==
    /\ pc = "idle"
    /\ \E response \in ServerResponses :
        SinglePage("get_sleep_analysis", None, response,
                   get_sleep_analysis(get_sleep_data(token, response)))

\* get_recent_sleep_trends(days, use_pagination=False)
GetRecentSleepTrendsOnePage ==
    /\ pc = "idle"
    /\ \E response \in ServerResponses :
        SinglePage("get_recent_sleep_trends_one_page", None, response,
                   get_recent_sleep_trends(get_sleep_data(token, response), FALSE))

\* The value a paginating operation returns after its loop.
AfterLoop(name, entries, tok, fetched) ==
    IF name = "get_all_sleep_data"
    THEN get_all_sleep_data_return(entries, tok, fetched)
    ELSE get_recent_sleep_trends(get_all_sleep_data_return(entries, tok, fetched), TRUE)

\* The value a paginating operation returns when get_all_sleep_data
\* returns an error from inside its loop.
AfterError(name, value) ==
    IF name = "get_all_sleep_data" THEN value
    ELSE get_recent_sleep_trends(value, TRUE)

\* The call of a paginating operation up to the first evaluation of the
\* loop condition (lines 456-461, 274-278).
Enter(name, pages, value_if_no_loop) ==
    /\ pc = "idle"
    /\ op' = name
    /\ max_pages' = pages
    /\ all_entries' = <<>>
    /\ next_token' = None
    /\ pages_fetched' = 0
    /\ IF 0 < pages
       THEN pc' = "loop" /\ result' = None
       ELSE pc' = "done" /\ result' = Some(value_if_no_loop)
    /\ NoRequest
    /\ UNCHANGED <<token, args, calls>>

\* get_all_sleep_data(max_pages)
CallGetAllSleepData ==
    \E pages \in 0..MaxPagesArg :
        Enter("get_all_sleep_data", pages,
              AfterLoop("get_all_sleep_data", <<>>, None, 0))

\* get_recent_sleep_trends(days, use_pagination=True)
CallGetRecentSleepTrends ==
    Enter("get_recent_sleep_trends", TrendsMaxPages,
          AfterLoop("get_recent_sleep_trends", <<>>, None, 0))

\* One iteration of the loop of get_all_sleep_data, and the return that
\* follows it when the loop ends.
GetAllSleepDataPage ==
    /\ pc = "loop"
    /\ op \in {"get_all_sleep_data", "get_recent_sleep_trends"}
    /\ pages_fetched < max_pages
    /\ \E response \in ServerResponses :
        LET it == get_all_sleep_data_iteration(all_entries, next_token, pages_fetched,
                                               get_sleep_data(token, response))
        IN  /\ GetSleepDataTraffic(next_token, response)
            /\ all_entries' = it.all_entries
            /\ next_token' = it.next_token
            /\ pages_fetched' = it.pages_fetched
            /\ IF it.exit = "return"
               THEN pc' = "done" /\ result' = Some(AfterError(op, it.value))
               ELSE IF it.exit = "break" \/ ~(it.pages_fetched < max_pages)
               THEN /\ pc' = "done"
                    /\ result' = Some(AfterLoop(op, it.all_entries, it.next_token,
                                                it.pages_fetched))
               ELSE pc' = "loop" /\ result' = None
    /\ UNCHANGED <<token, op, max_pages, args, calls>>

\* search_sleep_by_date(start_date, end_date, order, limit, max_pages)
CallSearchSleepByDate ==
    \E pages \in 0..MaxPagesArg :
        Enter("search_sleep_by_date", pages,
              search_sleep_by_date_except(
                  search_sleep_by_date_return(<<>>, None, 0, [pagination |-> None])))

\* Lines 303-308: search_sleep_by_date calls requests.get in every
\* iteration; it does not look at the token.
search_sleep_by_date_requests(tok) == TRUE

\* One iteration of the loop of search_sleep_by_date, and the return that
\* follows it when the loop ends.
SearchSleepByDatePage ==
    /\ pc = "loop"
    /\ op = "search_sleep_by_date"
    /\ pages_fetched < max_pages
    /\ search_sleep_by_date_requests(token)
    /\ \E response \in ServerResponses :
        LET it == search_sleep_by_date_iteration(all_entries, next_token,
                                                 pages_fetched, response)
        IN  /\ Request(next_token, response, FALSE)
            /\ IF IsExc(it)
               THEN /\ pc' = "done"
                    /\ result' = Some(search_sleep_by_date_except(it))
                    /\ UNCHANGED <<all_entries, next_token, pages_fetched>>
               ELSE /\ all_entries' = it.all_entries
                    /\ next_token' = it.next_token
                    /\ pages_fetched' = it.pages_fetched
                    /\ IF it.exit = "break" \/ ~(it.pages_fetched < max_pages)
                       THEN /\ pc' = "done"
                            /\ result' = Some(search_sleep_by_date_except(
                                   search_sleep_by_date_return(
                                       it.all_entries, it.next_token,
                                       it.pages_fetched, response.body[1])))
                       ELSE pc' = "loop" /\ result' = None
    /\ UNCHANGED <<token, op, max_pages, args, calls>>

Next ==
    \/ GetSleepData
    \/ GetSleepAnalysis
    \/ GetRecentSleepTrendsOnePage
    \/ CallGetAllSleepData
    \/ CallGetRecentSleepTrends
    \/ GetAllSleepDataPage
    \/ CallSearchSleepByDate
    \/ SearchSleepByDatePage

Spec == Init /\ [][Next]_vars

----------------------------------------------------------------------------
\* src/vault_tools.py: VaultAPITools.  A returned str is [text |-> parts],
\* a returned list [list |-> items]; the JSON body of a response is a dict
\* (a record of its keys) or an array ([array |-> items]).

\* format_error_response: f"Error occurred: {error}"
format_error_response(error) == [text |-> <<"Error occurred">> \o error]

IsStr(x) == "text" \in DOMAIN x
IsArray(x) == "array" \in DOMAIN x

\* get_entries_by_key (lines 61-91): tok tells that self.config.token is
\* not None, response is the outcome of requests.get.
get_entries_by_key(tok, response) ==
    IF ~tok THEN format_error_response(<<"No API token provided">>)
    ELSE IF response.http # "ok"
    THEN format_error_response(<<"API request failed", response.msg>>)
    ELSE response.body[1]

\* Lines 131-135 of get_entry_history, given what get_entries_by_key
\* returned: Ok(the value returned) or the exception raised.
get_entry_history_try(data, limit) ==
    IF IsStr(data) THEN Ok(data)
    ELSE IF IsArray(data)
    THEN Exc("AttributeError", "'list' object has no attribute 'get'")
    ELSE LET history == IF "history" \in DOMAIN data THEN data.history ELSE <<>>
         IN  \* history[:limit] if limit else history
             IF limit # None /\ limit[1] # 0
             THEN Ok([list |-> Prefix(history, limit[1])])
             ELSE Ok([list |-> history])

\* Lines 136-139: except Exception.
get_entry_history_except(r) ==
    IF IsExc(r) THEN format_error_response(<<"Error fetching history", r.msg>>)
    ELSE r.val

get_entry_history(tok, response, limit) ==
    get_entry_history_except(
        get_entry_history_try(get_entries_by_key(tok, response), limit))

\* The history lists of at most MaxHistory entries and the limits up to
\* MaxLimit (None: limit=None).
MaxHistory == 3
MaxLimit == 4
Histories == { [i \in 1..k |-> i] : k \in 0..MaxHistory }
Limits == {None} \cup { Some(n) : n \in 0..MaxLimit }

VaultResponses ==
    { [http |-> "ConnectionError", msg |-> "connection refused", body |-> None],
      [http |-> "HTTPError", msg |-> "500 Server Error", body |-> None],
      [http |-> "ok", msg |-> "", body |-> Some([current |-> 0])],
      [http |-> "ok", msg |-> "", body |-> Some([array |-> <<>>])] }
    \cup
    { [http |-> "ok", msg |-> "", body |-> Some([current |-> 0, history |-> h])] :
        h \in Histories }

----------------------------------------------------------------------------
\* The helper functions, each called on its own with arguments drawn from
\* bounded sets.

\* Lists of at most MaxDurations durations, in whole minutes.
MaxDurations == 3
DurationValues == {420, 421, 480, 540, 660}

RECURSIVE SeqsUpTo(_, _)
SeqsUpTo(S, n) ==
    IF n = 0 THEN {<<>>}
    ELSE LET shorter == SeqsUpTo(S, n - 1) IN
         shorter \cup { Append(q, x) : q \in {r \in shorter : Len(r) = n - 1}, x \in S }

DurationLists == SeqsUpTo(DurationValues, MaxDurations)

Call(function, arguments) == [function |-> function, arguments |-> arguments]

\* The entries search_sleep_by_date has found when its loop ends: up to
\* MaxBeyondLimit more than the table shows.
MaxBeyondLimit == 1

\* An entry as the record loop builds it: a night of 7 h with quality 90 and
\* respiratory rate 14, or a night of 8 h without either.
FoundEntry(date, long) ==
    formatted_entry(
        RawRecord(Some(TS(date, 1)), Some(TS(date, 2)),
                  IF long THEN Num(28800) ELSE Num(25200),
                  IF long THEN JNull ELSE Num(90),
                  IF long THEN Absent ELSE Num(14)),
        FALSE).val

\* n entries in fetch order, dated ascending or descending, the first
\* `short` of them nights of 7 h and the others nights of 8 h.
Found(n, short, ascending) ==
    [i \in 1..n |-> FoundEntry(IF ascending THEN i ELSE n + 1 - i, i > short)]

FoundLengths == {1, 2} \cup ((DisplayLimit - 1)..(DisplayLimit + MaxBeyondLimit))

FoundLists ==
    { Found(n, short, ascending) :
        n \in FoundLengths, short \in {0, 1, DisplayLimit}, ascending \in BOOLEAN }

\* Quality scores: null, or an integer up to MaxQualityScore.
MaxQualityScore == 100
QualityScores == {None} \cup { Some(q) : q \in (0 - 1)..MaxQualityScore }

FunctionCalls ==
    { Call("_calculate_consistency_score", d) : d \in DurationLists }
    \cup
    { Call("_get_quality_category", q) : q \in QualityScores }
    \cup
    { Call("get_entry_history", [token |-> t, response |-> r, limit |-> l]) :
        t \in BOOLEAN, r \in VaultResponses, l \in Limits }
    \cup
    { Call("search_sleep_by_date_return",
           [all_entries |-> e, next_token |-> None, pages_fetched |-> 0,
            data |-> [status |-> "success", data |-> <<>>,
                      pagination |-> Some([total |-> t, next |-> None])]]) :
        e \in FoundLists, t \in Totals }

\* A toolkit with a token, no public operation called, and one helper call
\* about to be made.
FunctionInit ==
    /\ token = TRUE
    /\ op = "idle"
    /\ pc = "idle"
    /\ max_pages = 0
    /\ all_entries = <<>>
    /\ next_token = None
    /\ pages_fetched = 0
    /\ result = None
    /\ requests = 0
    /\ last_sent = None
    /\ last = None
    /\ well_formed = TRUE
    /\ carried = <<>>
    /\ args \in { Some(c) : c \in FunctionCalls }
    /\ calls = <<>>

\* The helper returns value.
Apply(function, value) ==
    /\ op' = function
    /\ pc' = "done"
    /\ result' = Some(value)
    /\ UNCHANGED <<token, max_pages, all_entries, next_token, pages_fetched,
                   requests, last_sent, last, well_formed, carried, args, calls>>

CalculateConsistencyScore ==
    /\ pc = "idle"
    /\ args # None
    /\ args[1].function = "_calculate_consistency_score"
    /\ Apply("_calculate_consistency_score",
             _calculate_consistency_score(args[1].arguments))

\* Lines 340-364 of search_sleep_by_date: what follows the loop.
SearchSleepByDateReturn ==
    /\ pc = "idle"
    /\ args # None
    /\ args[1].function = "search_sleep_by_date_return"
    /\ LET a == args[1].arguments IN
       Apply("search_sleep_by_date_return",
             search_sleep_by_date_except(
                 search_sleep_by_date_return(a.all_entries, a.next_token,
                                             a.pages_fetched, a.data)))

GetQualityCategory ==
    /\ pc = "idle"
    /\ args # None
    /\ args[1].function = "_get_quality_category"
    /\ Apply("_get_quality_category", _get_quality_category(args[1].arguments))

\* VaultAPITools.get_entry_history(key, limit)
GetEntryHistory ==
    /\ pc = "idle"
    /\ args # None
    /\ args[1].function = "get_entry_history"
    /\ LET a == args[1].arguments IN
       Apply("get_entry_history", get_entry_history(a.token, a.response, a.limit))

FunctionNext ==
    \/ CalculateConsistencyScore
    \/ GetEntryHistory
    \/ GetQualityCategory
    \/ SearchSleepByDateReturn

FunctionSpec == FunctionInit /\ [][FunctionNext]_vars

----------------------------------------------------------------------------
\* Several calls of get_all_sleep_data / get_recent_sleep_trends on one
\* toolkit, interleaved at page-request granularity.  all_entries,
\* next_token and pages_fetched are locals of the call (lines 456-458); the
\* calls share self.config only, which they read.

CallIds == {1, 2}

\* The locals of a call, with the cursors it sent and the responses it
\* received; interleaved tells that it issued a request while another call
\* was between two of its own requests.
IdleCall ==
    [op |-> "idle", pc |-> "idle", max_pages |-> 0,
     all_entries |-> <<>>, next_token |-> None, pages_fetched |-> 0,
     result |-> None, sent |-> <<>>, received |-> <<>>, interleaved |-> FALSE]

ConcurrentInit ==
    /\ token = TRUE
    /\ op = "idle"
    /\ pc = "idle"
    /\ max_pages = 0
    /\ all_entries = <<>>
    /\ next_token = None
    /\ pages_fetched = 0
    /\ result = None
    /\ requests = 0
    /\ last_sent = None
    /\ last = None
    /\ well_formed = TRUE
    /\ carried = <<>>
    /\ args = None
    /\ calls = [i \in CallIds |-> IdleCall]

\* The pages served to concurrent calls: the last page, and one page for
\* each cursor the server may name, each of one record.
ConcurrentPages(cursors) ==
    { [data |-> <<RawRecord(Some(TS(1, 1)), Some(TS(1, 2)), Num(25200), Num(90), Num(14))>>,
       pagination |-> Some([total |-> 2, next |-> None])] }
    \cup
    { [data |-> <<RawRecord(Some(TS(2, 1)), Some(TS(2, 2)), Num(28800), JNull, Absent)>>,
       pagination |-> Some([total |-> 2, next |-> Some(x)])] : x \in cursors }

\* What requests.get can produce for call c: a failure, or a page that
\* names a next cursor or none.
ConcurrentResponses(c) ==
    { [http |-> "Timeout", msg |-> "read timed out", body |-> None] }
    \cup
    { [http |-> "ok", msg |-> "",
       body |-> Some([status |-> "success", data |-> p.data,
                      pagination |-> p.pagination])] :
        p \in ConcurrentPages(IF Len(c.sent) < MaxPagesArg THEN Cursors ELSE {}) }

\* The cursor of another call, as if next_token were shared by the calls.
other_next_token(cs, i) == cs[CHOOSE j \in CallIds : j # i].next_token

\* Line 462: the next_token the call passes to get_sleep_data is its local.
own_next_token(cs, i) == cs[i].next_token

StartCall(i, name, pages) ==
    /\ calls[i].pc = "idle"
    /\ calls' = [calls EXCEPT ![i] =
            [IdleCall EXCEPT
                !.op = name,
                !.max_pages = pages,
                !.pc = IF 0 < pages THEN "loop" ELSE "done",
                !.result = IF 0 < pages THEN None
                           ELSE Some(AfterLoop(name, <<>>, None, 0))]]
    /\ UNCHANGED <<token, op, pc, max_pages, all_entries, next_token, pages_fetched,
                   result, requests, last_sent, last, well_formed, carried, args>>

ConcurrentGetAllSleepData ==
    \E i \in CallIds, pages \in 0..MaxPagesArg :
        StartCall(i, "get_all_sleep_data", pages)

ConcurrentGetRecentSleepTrends ==
    \E i \in CallIds : StartCall(i, "get_recent_sleep_trends", TrendsMaxPages)

\* One iteration of the loop of call i, and the return that follows it when
\* the loop ends.
ConcurrentPage ==
    \E i \in CallIds :
        /\ calls[i].pc = "loop"
        /\ calls[i].pages_fetched < calls[i].max_pages
        /\ \E response \in ConcurrentResponses(calls[i]) :
            LET c == calls[i]
                tok == own_next_token(calls, i)
                it == get_all_sleep_data_iteration(c.all_entries, tok, c.pages_fetched,
                                                   get_sleep_data(token, response))
                ends == it.exit # "next" \/ ~(it.pages_fetched < c.max_pages)
            IN  calls' = [calls EXCEPT ![i] =
                    [c EXCEPT
                        !.all_entries = it.all_entries,
                        !.next_token = it.next_token,
                        !.pages_fetched = it.pages_fetched,
                        !.sent = Append(c.sent, tok),
                        !.received = Append(c.received, response),
                        !.interleaved = c.interleaved \/
                            \E j \in CallIds \ {i} :
                                calls[j].pc = "loop" /\ calls[j].sent # <<>>,
                        !.pc = IF ends THEN "done" ELSE "loop",
                        !.result =
                            IF it.exit = "return" THEN Some(AfterError(c.op, it.value))
                            ELSE IF ends
                            THEN Some(AfterLoop(c.op, it.all_entries, it.next_token,
                                                it.pages_fetched))
                            ELSE None]]
        /\ UNCHANGED <<token, op, pc, max_pages, all_entries, next_token, pages_fetched,
                       result, requests, last_sent, last, well_formed, carried, args>>

ConcurrentNext ==
    \/ ConcurrentGetAllSleepData
    \/ ConcurrentGetRecentSleepTrends
    \/ ConcurrentPage

ConcurrentSpec == ConcurrentInit /\ [][ConcurrentNext]_vars

----------------------------------------------------------------------------
\* Properties.

Done == pc = "done"
Returned == result[1]
IsError(v) == "error" \in DOMAIN v
Paginating == {"get_all_sleep_data", "search_sleep_by_date"}
TrendOps == {"get_recent_sleep_trends", "get_recent_sleep_trends_one_page"}

\* The latest request failed: transport failure, timeout or non-2xx status.
Failed == last # None /\ last[1].failed

\* The latest response is a 2xx response whose body has status "success".
LastIsSuccess == last # None /\ ~last[1].failed /\ last[1].status = "success"

\* C1: one call of get_all_sleep_data(max_pages) or
\* search_sleep_by_date(..., max_pages) issues at most max_pages requests,
\* whatever the server answers.
C1_AtMostMaxPagesRequests ==
    op \in Paginating => requests <= max_pages

\* C1, witness: a call that has issued max_pages requests and stopped while
\* the server still named a next cursor.
C1_Witness ==
    /\ Done /\ op \in Paginating
    /\ max_pages = MaxPagesArg /\ requests = max_pages
    /\ Truthy(last[1].next)

\* C2: without a token every fetching operation returns an error result and
\* issues no request (a paginating call with max_pages = 0, which has nothing
\* to fetch, is left aside for the kind of its result).
C2_NoTokenNoRequest ==
    ~token =>
        /\ requests = 0
        /\ (Done /\ ~(op \in Paginating /\ max_pages = 0)) => IsError(Returned)

\* C3: whatever the outcome of the HTTP call, every public operation returns
\* a value, a payload or {"error": message}, and raises nothing.
C3_NeverRaises ==
    Done => result # None /\ ~IsExc(Returned)

\* C3, witness: a call whose page held a record without start_time has
\* returned an error value.
C3_Witness ==
    /\ Done /\ requests = 1 /\ LastIsSuccess
    /\ \E i \in DOMAIN last[1].data : last[1].data[i].start_time = None
    /\ result # None /\ IsError(Returned)
    /\ Returned.error[Len(Returned.error)] = "'start_time'"

\* C4: a 2xx response with status "success" and no data makes get_sleep_data,
\* and search_sleep_by_date on its first page, return a result that is not
\* an error value.
C4_EmptyPageIsNotAnError ==
    (/\ Done /\ op \in {"get_sleep_data", "search_sleep_by_date"}
     /\ requests = 1 /\ LastIsSuccess /\ last[1].has_pagination
     /\ last[1].data = <<>>)
    => ~IsError(Returned)

\* The numeric fields of a record coerce: float(duration), int(quality) and
\* float(respiratory_rate) give numbers (an absent key is 0, resp. None).
Coerces(r) ==
    /\ r.duration.tag \in {"absent", "num"}
    /\ r.quality.tag \in {"absent", "null", "num"}
    /\ r.respiratory_rate.tag \in {"absent", "null", "num"}

\* C5: the entries get_sleep_data returns for a page are exactly the records
\* whose numeric fields coerce, in server order; a record that fails a
\* coercion does not turn the page into an error; an absent duration gives
\* duration_minutes = 0.  (Pages whose records all have their timestamps.)
C5_ExactlyTheCoercibleRecords ==
    (/\ Done /\ op = "get_sleep_data" /\ requests = 1
     /\ LastIsSuccess /\ last[1].has_pagination /\ last[1].data # <<>>
     /\ \A i \in DOMAIN last[1].data :
           last[1].data[i].start_time # None /\ last[1].data[i].end_time # None)
    => LET kept == SelectSeq(last[1].data, Coerces) IN
       /\ ~IsError(Returned)
       /\ Len(Returned.recent_sleep_data) = Len(kept)
       /\ \A i \in DOMAIN kept :
            /\ Returned.recent_sleep_data[i].start_time = kept[i].start_time[1]
            /\ kept[i].duration.tag = "absent"
                  => Returned.recent_sleep_data[i].duration_minutes = 0

\* C6: when page k <= max_pages is the first page without a next cursor,
\* get_all_sleep_data returns the entries of pages 1..k in fetch order with
\* pages_fetched = k and has_more = false, whatever total the server reports.
C6_CompleteWhenCursorEnds ==
    (/\ Done /\ op = "get_all_sleep_data"
     /\ requests >= 1 /\ well_formed /\ ~Truthy(last[1].next))
    => /\ ~IsError(Returned)
       /\ Returned.sleep_data = carried
       /\ Returned.pages_fetched = requests
       /\ Returned.has_more = FALSE

TrendFetchOk ==
    /\ Done /\ op \in TrendOps
    /\ token /\ requests = 1 /\ well_formed /\ last[1].data # <<>>
    /\ ~Truthy(last[1].next)

\* The duration values of a trend report's entries (line 563).
DurationsOf(entries) ==
    Comprehension(entries, LAMBDA e : e.duration_minutes # 0, LAMBDA e : e.duration_minutes)

\* C8: trend analysis over an empty entry sequence returns a report in which
\* every averaged metric is null and consistency_score = 0.0.
C8_TrendsOfNoEntries ==
    (TrendFetchOk /\ carried = <<>>)
    => /\ ~IsError(Returned)
       /\ Returned.summary_stats.sleep_duration.average_hours = None
       /\ Returned.summary_stats.sleep_quality.average_score = None
       /\ Returned.summary_stats.respiratory_rate.average = None
       /\ "trends" \in DOMAIN Returned
       /\ Returned.trends.consistency_score = 0

\* C9: for every non-empty entry sequence get_recent_sleep_trends returns a
\* report, not an error, in which the statistics of a metric without values
\* are null.
C9_TrendsOfAnyEntries ==
    (TrendFetchOk /\ carried # <<>>)
    => /\ ~IsError(Returned)
       /\ (\A i \in DOMAIN carried : carried[i].quality = None)
             => /\ Returned.summary_stats.sleep_quality.average_score = None
                /\ Returned.summary_stats.sleep_quality.best_quality = None
                /\ Returned.summary_stats.sleep_quality.lowest_quality = None
       /\ (\A i \in DOMAIN carried : carried[i].respiratory_rate = None)
             => /\ Returned.summary_stats.respiratory_rate.average = None
                /\ Returned.summary_stats.respiratory_rate.min = None
                /\ Returned.summary_stats.respiratory_rate.max = None

\* C10: with fewer than 2 duration values the trend report carries
\* consistency_score = 0.0.
C10_DegenerateConsistencyScore ==
    (TrendFetchOk /\ carried # <<>> /\ Len(DurationsOf(carried)) < 2)
    => /\ ~IsError(Returned)
       /\ "trends" \in DOMAIN Returned
       /\ Returned.trends.consistency_score = 0

----------------------------------------------------------------------------
\* Properties of the helper functions.

Applied(function) == pc = "done" /\ op = function
Arguments == args[1].arguments

\* n^2 times the population variance of a list of n durations.
N2Variance(d) ==
    Len(d) * Sum([i \in 1..Len(d) |-> d[i] * d[i]]) - Sum(d) * Sum(d)

\* stddev(a) <= stddev(b), for non-empty lists.
StdDevLeq(a, b) ==
    N2Variance(a) * Len(b) * Len(b) <= N2Variance(b) * Len(a) * Len(a)

\* score (in hundredths) is 100 * (1 - min(stddev(d) / 120, 1)) rounded to 2
\* decimals: with t = 10000 - score and w = n^2 * variance,
\* t - 1/2 <= 250 * sqrt(w) / (3 n) < t + 1/2, or t = 10000 when stddev >= 120.
IsScoreOf(score, d) ==
    LET n == Len(d)
        w == N2Variance(d)
        t == 10000 - score
    IN  IF w >= 14400 * n * n THEN score = 0
        ELSE /\ t = 0 \/ LeqScaledSqrt((2 * t - 1) * 3 * n, w)
             /\ ~LeqScaledSqrt((2 * t + 1) * 3 * n, w)

AllEqual(d) == \A i, j \in DOMAIN d : d[i] = d[j]

ScoreProperties(d, score) ==
    /\ 0 <= score /\ score <= 10000
    /\ IsScoreOf(score, d)
    /\ AllEqual(d) => score = 10000
    /\ N2Variance(d) >= 14400 * Len(d) * Len(d) => score = 0
    /\ d = <<420, 480>> => score = 7500
    /\ \A e \in DurationValues \X DurationValues :
          /\ StdDevLeq(d, e) => _calculate_consistency_score(e) <= score
          /\ StdDevLeq(e, d) => _calculate_consistency_score(e) >= score

\* C11 (as amended): for every list of 2 or more durations,
\* _calculate_consistency_score returns 100 * (1 - min(stddev / 120, 1))
\* rounded to 2 decimals for the population standard deviation: a value in
\* [0, 100] that never increases when the standard deviation increases, is
\* 100 when all durations are equal, 0 when stddev >= 120 and 75.0 for
\* [420, 480]; for a list of fewer than 2 durations it returns 0.0.
C11_ConsistencyScore ==
    Applied("_calculate_consistency_score") =>
        IF Len(Arguments) >= 2 THEN ScoreProperties(Arguments, Returned)
        ELSE Returned = 0

\* C11, witness: the score of [420, 480] is 75.0.
C11_Witness ==
    /\ Applied("_calculate_consistency_score")
    /\ Arguments = <<420, 480>>
    /\ Returned = 7500

\* C11 as stated: for every (non-empty) list of durations the score has
\* these properties, the lists of one duration included.
C11_ConsistencyScoreOfEveryList ==
    (Applied("_calculate_consistency_score") /\ Arguments # <<>>)
        => ScoreProperties(Arguments, Returned)

----------------------------------------------------------------------------
\* Properties of the trend report.

QualitiesOf(entries) ==
    Comprehension(entries, LAMBDA e : e.quality # None, LAMBDA e : e.quality[1])

Directions == {"improving", "declining"}

\* C12: a trend report carries a direction label for a metric only when the
\* metric has at least 2 data points: duration_trend only with 2 or more
\* duration values, quality_trend only with 2 or more quality values.
C12_DirectionNeedsTwoPoints ==
    (TrendFetchOk /\ ~IsError(Returned) /\ "trends" \in DOMAIN Returned)
    => /\ Returned.trends.duration_trend \in Directions
            => Len(DurationsOf(carried)) >= 2
       /\ Returned.trends.quality_trend \in Directions
            => Len(QualitiesOf(carried)) >= 2

----------------------------------------------------------------------------
\* Properties of the payload of search_sleep_by_date.

\* C13: when search_sleep_by_date has found entries, the table of its
\* payload shows at most 30 rows and the summary block (average and range of
\* duration, average quality, entry count) is computed over all the entries
\* found.
C13_SummaryOverAllEntriesFound ==
    (Applied("search_sleep_by_date_return") /\ ~IsError(Returned))
    => /\ Len(Returned.display.table) <= DisplayLimit
       /\ Returned.display.summary.showing = Len(Arguments.all_entries)
       /\ Returned.display.summary = display_summary(Arguments.all_entries)

\* C14: in every table row of the payload of search_sleep_by_date a cell
\* shows the placeholder '-' exactly when the entry's value for the column
\* is missing/null (for the duration: when normalization left 0), and the
\* formatted value otherwise; an entry with quality = null has '-' in its
\* quality column.
C14_PlaceholderExactlyWhenMissing ==
    (Done /\ op = "search_sleep_by_date" /\ ~IsError(Returned))
    => LET rows == Returned.display.table
           entries == sorted_entries(Prefix(all_entries, DisplayLimit))
       IN  /\ Len(rows) = Len(entries)
           /\ \A i \in DOMAIN rows :
                /\ rows[i].duration =
                       IF entries[i].duration_minutes = 0 THEN Placeholder
                       ELSE Number(Format1f(entries[i].duration_minutes, MinutesPerHour))
                /\ rows[i].quality =
                       IF entries[i].quality = None THEN Placeholder
                       ELSE Number(entries[i].quality[1])
                /\ rows[i].resp_rate =
                       IF entries[i].respiratory_rate = None THEN Placeholder
                       ELSE Number(Format1f(entries[i].respiratory_rate[1], 1))

----------------------------------------------------------------------------
\* Properties of _get_quality_category.

\* C15: _get_quality_category maps a quality score q to 'Unknown' when q is
\* null, 'Excellent' when q >= 80, 'Good' when 60 <= q < 80, 'Fair' when
\* 40 <= q < 60 and 'Poor' when q < 40: 90, 55, 30 map to 'Excellent',
\* 'Fair', 'Poor', and 0 is 'Poor', not 'Unknown'.
C15_QualityCategory ==
    Applied("_get_quality_category") =>
        LET q == Arguments IN
        /\ Returned \in {"Unknown", "Excellent", "Good", "Fair", "Poor"}
        /\ Returned = "Unknown" <=> q = None
        /\ q # None =>
            /\ Returned = "Excellent" <=> q[1] >= 80
            /\ Returned = "Good" <=> (60 <= q[1] /\ q[1] < 80)
            /\ Returned = "Fair" <=> (40 <= q[1] /\ q[1] < 60)
            /\ Returned = "Poor" <=> q[1] < 40
        /\ q = Some(90) => Returned = "Excellent"
        /\ q = Some(55) => Returned = "Fair"
        /\ q = Some(30) => Returned = "Poor"
        /\ q = Some(0) => Returned = "Poor"

\* C15, witness: the category of quality 0 is 'Poor'.
C15_Witness ==
    /\ Applied("_get_quality_category")
    /\ Arguments = Some(0)
    /\ Returned = "Poor"

----------------------------------------------------------------------------
\* Properties of the construction of the toolkit.

\* C16: the absence of a token is a configuration error at construction and
\* not a failure deferred to the first fetch: there is no usable toolkit
\* without a token, so no operation is ever called on one and answered.
C16_NoToolkitWithoutToken ==
    ~token => (pc = "idle" /\ result = None)

----------------------------------------------------------------------------
\* Properties of interleaved calls.

\* The value a call returns when it runs alone and is served responses.
RECURSIVE RunAlone(_, _, _, _, _, _)
RunAlone(name, pages, entries, tok, fetched, responses) ==
    IF ~(fetched < pages) \/ responses = <<>>
    THEN AfterLoop(name, entries, tok, fetched)
    ELSE LET it == get_all_sleep_data_iteration(entries, tok, fetched,
                       get_sleep_data(token, Head(responses)))
         IN  IF it.exit = "return" THEN AfterError(name, it.value)
             ELSE IF it.exit = "break"
             THEN AfterLoop(name, it.all_entries, it.next_token, it.pages_fetched)
             ELSE RunAlone(name, pages, it.all_entries, it.next_token,
                           it.pages_fetched, Tail(responses))

\* The cursor the k-th response to a call named.
NamedBy(response) ==
    IF response.http = "ok" /\ response.body[1].pagination # None
    THEN response.body[1].pagination[1].next ELSE None

\* C17: interleaved calls of get_all_sleep_data / get_recent_sleep_trends on
\* one toolkit do not interfere: each call sends only the cursors of its own
\* responses, and returns what it would return had it run alone and been
\* served the same responses.
C17_InterleavedCallsDoNotInterfere ==
    \A i \in CallIds :
        LET c == calls[i] IN
        /\ \A k \in DOMAIN c.sent :
              c.sent[k] = IF k = 1 THEN None ELSE NamedBy(c.received[k - 1])
        /\ c.pc = "done"
              => c.result = Some(RunAlone(c.op, c.max_pages, <<>>, None, 0, c.received))

\* C17, witness: two calls, each of two requests issued while the other was
\* between its own two, have returned; they followed different cursors.
C17_Witness ==
    /\ \A i \in CallIds :
          /\ calls[i].pc = "done"
          /\ calls[i].interleaved
          /\ Len(calls[i].sent) = 2
          /\ ~IsError(calls[i].result[1])
    /\ calls[1].sent # calls[2].sent
    /\ calls[1].op # calls[2].op

----------------------------------------------------------------------------
\* Properties of VaultAPITools.get_entry_history.

\* C18: get_entry_history(key, limit) returns the first limit entries of the
\* server's history list, in order, hence no more than limit entries, for
\* every integer limit >= 0, and returns the error string of
\* get_entries_by_key unchanged when the fetch failed.
C18_HistoryLimit ==
    Applied("get_entry_history") =>
        LET a == Arguments
            body == a.response.body
        IN  IF ~a.token \/ a.response.http # "ok"
            THEN Returned = get_entries_by_key(a.token, a.response)
            ELSE (a.limit # None /\ "history" \in DOMAIN body[1])
                 => /\ ~IsStr(Returned)
                    /\ Len(Returned.list) <= a.limit[1]
                    /\ Returned.list = Prefix(body[1].history, a.limit[1])

----------------------------------------------------------------------------
\* Properties of the page counter and of the cursors sent.

\* The pages_fetched value in the payload of a paginating operation.
ReportedPagesFetched ==
    IF op = "get_all_sleep_data" THEN Returned.pages_fetched
    ELSE Returned.summary.pages_fetched

\* C19: the pages_fetched value get_all_sleep_data and search_sleep_by_date
\* report is the number of page requests the call issued, and so never
\* exceeds max_pages.
C19_PagesFetchedIsRequests ==
    (Done /\ op \in Paginating /\ ~IsError(Returned))
    => /\ ReportedPagesFetched = requests
       /\ ReportedPagesFetched <= max_pages

\* C20: get_all_sleep_data and search_sleep_by_date fetch their pages one at
\* a time in cursor order: requests are issued one per step, each after the
\* response to the one before it, the first without next_token and every
\* later one with exactly the cursor that response named.
C20_CursorOrder ==
    [][ (op' \in Paginating /\ requests' # requests) =>
            /\ requests' = requests + 1
            /\ last' # None
            /\ IF requests = 0
               THEN last = None /\ last_sent' = None
               ELSE /\ last # None /\ ~last[1].failed
                    /\ Truthy(last[1].next)
                    /\ last_sent' = last[1].next ]_vars

\* C20, witness: the second request of search_sleep_by_date carried the
\* cursor "c2" and was answered.
C20_Witness ==
    /\ op = "search_sleep_by_date"
    /\ requests = 2
    /\ last_sent = Some("c2")
    /\ LastIsSuccess

----------------------------------------------------------------------------
\* Properties of the statistics, of the rows shown and of has_more.

AllDurationsOf(entries) == [i \in 1..Len(entries) |-> entries[i].duration_minutes]

\* C21: an entry is left out of a metric's statistics only when its value
\* for the metric is null: every entry, a duration_minutes of 0 included, is
\* counted in the average/min/max duration of the trend report and of the
\* rendered summary, and every non-null quality in the quality statistics.
C21_OnlyNullValuesLeftOut ==
    /\ (TrendFetchOk /\ carried # <<>> /\ ~IsError(Returned))
       => LET d == AllDurationsOf(carried)
              q == QualitiesOf(carried)
              stats == Returned.summary_stats
          IN  /\ stats.sleep_duration.average_hours
                    = Some(Round2(Sum(d), Len(d) * MinutesPerHour))
              /\ stats.sleep_duration.min_hours = Some(Round2(Min(d), MinutesPerHour))
              /\ stats.sleep_duration.max_hours = Some(Round2(Max(d), MinutesPerHour))
              /\ q # <<>> => stats.sleep_quality.average_score
                                = Some(Round2(Sum(q), Len(q)))
    /\ (Done /\ op = "search_sleep_by_date" /\ ~IsError(Returned))
       => LET d == AllDurationsOf(Prefix(all_entries, DisplayLimit))
              summary == Returned.display.summary
          IN  /\ summary.avg_sleep = Some(Format1f(Sum(d), Len(d) * MinutesPerHour))
              /\ summary.range = Some(<<Format1f(Min(d), MinutesPerHour),
                                        Format1f(Max(d), MinutesPerHour)>>)

\* C22: the rows search_sleep_by_date displays are the most recent entries
\* found: for entries fetched in ascending or descending order, the table
\* holds the min(n, 30) found entries with the greatest start_time, in
\* descending start_time order.
C22_MostRecentRows ==
    (Applied("search_sleep_by_date_return") /\ ~IsError(Returned))
    => LET found == Arguments.all_entries
           rows == Returned.display.table
           shown == { rows[i].date : i \in DOMAIN rows }
       IN  /\ Len(rows) = IF Len(found) < DisplayLimit THEN Len(found) ELSE DisplayLimit
           /\ \A i, j \in DOMAIN rows : i < j => rows[i].date > rows[j].date
           /\ \A k \in DOMAIN found :
                \/ found[k].date \in shown
                \/ \A d \in shown : d > found[k].date

\* The has_more value in the payload of a paginating operation.
ReportedHasMore ==
    IF op = "get_all_sleep_data" THEN Returned.has_more
    ELSE Returned.summary.has_more

\* C23: in every successful result of get_all_sleep_data and
\* search_sleep_by_date, has_more is true if and only if the last response
\* the call received carried a non-null next cursor.
C23_HasMoreIsLastCursor ==
    (Done /\ op \in Paginating /\ ~IsError(Returned))
    => (ReportedHasMore <=> (last # None /\ last[1].next # None))

====
